---- MODULE Spec2Model ----
(***************************************************************************)
(* Model of wp-heatmap.py: the resumable block collection pipeline         *)
(* (process_block, collect_data_parallel) with its chunk directory, row    *)
(* checkpoints, per-block aggregates and the final merge.                  *)
(***************************************************************************)
EXTENDS Integers, Sequences, FiniteSets, TLC

VARIABLES
    cfg,          \* the START/END pair of the current run
    world,        \* what the remote service answers for each pixel
    files,        \* contents of CHUNKS_DIR: file name -> content
    pc,           \* position of the (single-threaded) program
    blocks,       \* collect_data_parallel: the enumerated blocks
    bi,           \* collect_data_parallel: index of the block being driven
    result,       \* collect_data_parallel: last value returned by process_block
    partial_data, \* process_block local
    rows_done,    \* process_block local
    retry_count,  \* process_block local
    row_index,    \* process_block local
    col,          \* process_block local
    row_pixels,   \* process_block local
    merged,       \* value returned by collect_data_parallel
    runs,         \* number of program runs started so far
    crashes,      \* number of interruptions so far
    transients,   \* history: transient outcomes seen by the current block
    abortRow,     \* history: row at which the previous attempt was aborted
    fetches,      \* history: requests issued by the current process_block call
    committed,    \* history: rows of the last completed checkpoint write
    mergeRead,    \* history: the files opened by the merge
    lastResp,     \* history: the HTTP exchange of the last request
    key_order,    \* export_json: painter_counts.items(), in the dict's order
    exported      \* export_json: the data written to data.json

vars == <<cfg, world, files, pc, blocks, bi, result, partial_data, rows_done,
          retry_count, row_index, col, row_pixels, merged, runs, crashes,
          transients, abortRow, fetches, committed, mergeRead, lastResp,
          key_order, exported>>

exportVars == <<key_order, exported>>

locals == <<partial_data, rows_done, retry_count, row_index, col, row_pixels>>

(***************************************************************************)
(* Program constants and model bounds                                      *)
(***************************************************************************)
BLOCK_SIZE == 10
TILE_SIZE == 1000
MAX_RETRY == 5

MaxRuns == 2
MaxSide == 21
MaxCount == 3
MaxCrashes == 1
TransCap == 6

Min(a, b) == IF a < b THEN a ELSE b

(***************************************************************************)
(* Coordinates                                                             *)
(***************************************************************************)
world_coords(tlx, tly, pxx, pxy) == <<tlx * TILE_SIZE + pxx, tly * TILE_SIZE + pxy>>

rect_bounds(start, end) ==
    LET w0 == world_coords(start.tlx, start.tly, start.pxx, start.pxy)
        w1 == world_coords(end.tlx, end.tly, end.pxx, end.pxy)
    IN  [wx0 |-> w0[1], wy0 |-> w0[2], wx1 |-> w1[1], wy1 |-> w1[2]]

\* the two offsets taken from the wrong axis
tile_coords_swapped(wx, wy) == <<wx \div TILE_SIZE, wy \div TILE_SIZE, wy % TILE_SIZE, wx % TILE_SIZE>>

\* process_block: tlx, tly, pxx, pxy of an absolute coordinate pair
tile_coords(wx, wy) == <<wx \div TILE_SIZE, wy \div TILE_SIZE, wx % TILE_SIZE, wy % TILE_SIZE>>

Point(tlx, tly, pxx, pxy) == [tlx |-> tlx, tly |-> tly, pxx |-> pxx, pxy |-> pxy]

\* START/END pairs the program is run with: a 1 x 11 column crossing a tile
\* border (blocks of 10 and 1 rows) and a 2 x 1 strip sharing its last block.
CfgColumn == [start |-> Point(0, 0, 999, 990), end |-> Point(0, 1, 999, 0)]
CfgStrip == [start |-> Point(0, 1, 999, 0), end |-> Point(1, 1, 0, 0)]
Configs == {CfgColumn, CfgStrip}

Rect == rect_bounds(cfg.start, cfg.end)

\* START/END pairs for the enumeration alone: corners around tile borders, the
\* end before, at or after the start, at most MaxSide apart on each axis
EnumPoints ==
    {Point(tx, ty, ox, oy) : tx \in {-1, 0, 1}, ty \in {0, 1},
                             ox \in {0, 9, 10, 19, 20, 990, 999}, oy \in {0, 9, 10, 995, 999}}

Near(a, b) == a - b <= MaxSide /\ b - a <= MaxSide

EnumConfigs ==
    {c \in [start : EnumPoints, end : EnumPoints] :
        /\ Near(rect_bounds(c.start, c.end).wx0, rect_bounds(c.start, c.end).wx1)
        /\ Near(rect_bounds(c.start, c.end).wy0, rect_bounds(c.start, c.end).wy1)}

\* range(a, b, step) as a sequence
RECURSIVE Range(_, _, _)
Range(a, b, step) == IF a >= b THEN <<>> ELSE <<a>> \o Range(a + step, b, step)

RECURSIVE Concat(_)
Concat(ss) == IF ss = <<>> THEN <<>> ELSE Head(ss) \o Concat(Tail(ss))

\* range(wy0, wy1, ..) and range(wx0, wx1, ..): the far edge left out
EnumerateBlocks_open(r) ==
    LET ys == Range(r.wy0, r.wy1, BLOCK_SIZE)
        xs == Range(r.wx0, r.wx1, BLOCK_SIZE)
    IN  Concat([i \in 1..Len(ys) |-> [j \in 1..Len(xs) |-> <<xs[j], ys[i]>>]])

\* the block list built at the top of collect_data_parallel
EnumerateBlocks(r) ==
    LET ys == Range(r.wy0, r.wy1 + 1, BLOCK_SIZE)
        xs == Range(r.wx0, r.wx1 + 1, BLOCK_SIZE)
    IN  Concat([i \in 1..Len(ys) |-> [j \in 1..Len(xs) |-> <<xs[j], ys[i]>>]])

SeqToSet(s) == {s[i] : i \in 1..Len(s)}

AllKeys == UNION {SeqToSet(EnumerateBlocks(rect_bounds(c.start, c.end))) : c \in Configs}

(***************************************************************************)
(* The chunk directory                                                     *)
(***************************************************************************)
\* the checkpoint's name not keyed by the block
partial_filename_fixed(b) == <<"chunk", 999, 990, ".partial", ".json">>

chunk_filename(b) == <<"chunk", b[1], b[2], ".json">>
partial_filename(b) == <<"chunk", b[1], b[2], ".partial", ".json">>

FileNames == {chunk_filename(b) : b \in AllKeys} \cup {partial_filename(b) : b \in AllKeys}

\* str.endswith(".json") on the dot-separated suffixes of a name
EndsWithJson(name) == name[Len(name)] = ".json"

EmptyDict == [k \in {} |-> 0]

\* A file is absent, truncated by open(.., "w") and not yet (fully) written,
\* a JSON list of rows (checkpoint) or a JSON object (aggregate).
Absent == [st |-> "absent", rows |-> <<>>, painterCounts |-> EmptyDict, pixels |-> <<>>]
Truncated == [st |-> "trunc", rows |-> <<>>, painterCounts |-> EmptyDict, pixels |-> <<>>]
ListFile(rows) == [st |-> "list", rows |-> rows, painterCounts |-> EmptyDict, pixels |-> <<>>]
DictFile(counts, pixels) == [st |-> "dict", rows |-> <<>>, painterCounts |-> counts, pixels |-> pixels]

Exists(name) == files[name].st # "absent"

(***************************************************************************)
(* The remote service and fetch_pixel                                      *)
(***************************************************************************)
Worlds == {"empty", "mixed"}

\* One HTTP exchange: an exception raised by requests.get ("none", "timeout",
\* "other"), else a status and, for a 200, the paintedBy name and id of the
\* body ("" and 0 stand for a missing or null value).
Response(exc, status, name, id) == [exc |-> exc, status |-> status, name |-> name, id |-> id]

\* What the service holds for a pixel; it does not change during the runs.
ServerAnswer(w, tlx, tly, pxx, pxy) ==
    LET s == (tlx * TILE_SIZE + pxx + tly * TILE_SIZE + pxy) % 4
    IN  IF w = "empty" THEN Response("none", 404, "", 0)
        ELSE CASE s = 0 -> Response("none", 404, "", 0)
               [] s = 1 -> Response("none", 200, "B", 2)
               [] s = 2 -> Response("none", 200, "", 0)
               [] OTHER -> Response("none", 200, "A", 1)

\* Exchanges that can happen instead, at any request.
Failures == {Response("timeout", 0, "", 0), Response("other", 0, "", 0),
             Response("none", 429, "", 0), Response("none", 500, "", 0),
             Response("none", 403, "", 0)}

Outcome(tag, name, id) == [tag |-> tag, name |-> name, id |-> id]

\* the 404 branch missing: raise_for_status turns a 404 into "ERROR"
fetch_pixel_404_error(r) ==
    IF r.exc = "timeout" THEN Outcome("TIMEOUT", "", 0)
    ELSE IF r.exc # "none" THEN Outcome("ERROR", "", 0)
    ELSE IF r.status = 429 THEN Outcome("RATE_LIMIT", "", 0)
    ELSE IF r.status >= 500 THEN Outcome("SERVER_ERROR", "", 0)
    ELSE IF r.status >= 400 THEN Outcome("ERROR", "", 0)
    ELSE Outcome("DATA", r.name, r.id)

fetch_pixel(r) ==
    IF r.exc = "timeout" THEN Outcome("TIMEOUT", "", 0)
    ELSE IF r.exc # "none" THEN Outcome("ERROR", "", 0)
    ELSE IF r.status = 404 THEN Outcome("404", "", 0)
    ELSE IF r.status = 429 THEN Outcome("RATE_LIMIT", "", 0)
    ELSE IF r.status >= 500 THEN Outcome("SERVER_ERROR", "", 0)
    ELSE IF r.status >= 400 THEN Outcome("ERROR", "", 0)
    ELSE Outcome("DATA", r.name, r.id)

\* every outcome that is not attribution data taken as transient
IsTransient_not_data(data) == data.tag # "DATA"

IsTransient(data) == data.tag \in {"RATE_LIMIT", "SERVER_ERROR", "TIMEOUT", "ERROR"}

\* f"{name}#{pid}"
PainterKey(name, pid) == <<name, pid>>

\* the record holding the world coordinates, not those relative to the rectangle
PixelRecords_absolute(data, wx, wy, r) ==
    IF data.name # "" /\ data.id # 0
    THEN <<[x |-> wx, y |-> wy, painters |-> <<PainterKey(data.name, data.id)>>]>>
    ELSE <<>>

\* the record appended to row_pixels for a DATA outcome, <<>> when none is
PixelRecords(data, wx, wy, r) ==
    IF data.name # "" /\ data.id # 0
    THEN <<[x |-> wx - r.wx0, y |-> wy - r.wy0, painters |-> <<PainterKey(data.name, data.id)>>]>>
    ELSE <<>>

(***************************************************************************)
(* process_block: building the aggregate                                   *)
(***************************************************************************)
Increment(counts, key) ==
    [k \in DOMAIN counts \cup {key} |->
        IF k \in DOMAIN counts THEN counts[k] + (IF k = key THEN 1 ELSE 0) ELSE 1]

RECURSIVE CountKeys(_, _)
CountKeys(counts, keys) ==
    IF keys = <<>> THEN counts ELSE CountKeys(Increment(counts, Head(keys)), Tail(keys))

RECURSIVE CountPixels(_, _)
CountPixels(counts, ps) ==
    IF ps = <<>> THEN counts
    ELSE CountPixels(CountKeys(counts, Head(ps).painters), Tail(ps))

\* final_data of a completed block
FinalData(rows) == DictFile(CountPixels(EmptyDict, Concat(rows)), Concat(rows))

\* the existence test of the aggregate left out
FinalExists_never(b) == FALSE

FinalExists(b) == Exists(chunk_filename(b))

\* the rows of the checkpoint kept and fetched again
FirstRow_restarts(data) == 0

\* the resume index one too far
FirstRow_skips(data) == Len(data) + 1

\* rows_done = len(partial_data), the first index of range(rows_done, BLOCK_SIZE)
FirstRow(data) == Len(data)

\* the checkpoint never read back
LoadPartial_forgets(b) == <<>>

\* partial_data as loaded on entry: [] when the file is missing or json.load raises
LoadPartial(b) ==
    LET f == files[partial_filename(b)]
    IN  IF f.st = "list" THEN f.rows ELSE <<>>

(***************************************************************************)
(* collect_data_parallel: the merge                                        *)
(***************************************************************************)
ListDir == {n \in FileNames : Exists(n)}

MergeSelected == {n \in ListDir : EndsWithJson(n)}

\* json.load raises, or cdata["painterCounts"] raises on a list
MergeRaises(n) == files[n].st # "dict"

\* painter_counts[k] = c in place of += c
AddCounts_overwrites(pcounts, cc) ==
    [k \in DOMAIN pcounts \cup DOMAIN cc |-> IF k \in DOMAIN cc THEN cc[k] ELSE pcounts[k]]

AddCounts(pcounts, cc) ==
    [k \in DOMAIN pcounts \cup DOMAIN cc |->
        (IF k \in DOMAIN pcounts THEN pcounts[k] ELSE 0)
        + (IF k \in DOMAIN cc THEN cc[k] ELSE 0)]

AddPixel(pmap, p) ==
    LET c == <<p.x, p.y>>
    IN  [d \in DOMAIN pmap \cup {c} |->
            (IF d \in DOMAIN pmap THEN pmap[d] ELSE {})
            \cup (IF d = c THEN {p.painters[1]} ELSE {})]

RECURSIVE AddPixels(_, _)
AddPixels(pmap, ps) ==
    IF ps = <<>> THEN pmap ELSE AddPixels(AddPixel(pmap, Head(ps)), Tail(ps))

NoData == [st |-> "none", painter_counts |-> EmptyDict, pixel_map |-> EmptyDict]

RECURSIVE MergeFold(_, _)
MergeFold(names, acc) ==
    IF names = {} THEN acc
    ELSE LET n == CHOOSE x \in names : TRUE
             cdata == files[n]
         IN  MergeFold(names \ {n},
                       [st |-> "ok",
                        painter_counts |-> AddCounts(acc.painter_counts, cdata.painterCounts),
                        pixel_map |-> AddPixels(acc.pixel_map, cdata.pixels)])

MergeChunks(names) ==
    MergeFold(names, [st |-> "ok", painter_counts |-> EmptyDict, pixel_map |-> EmptyDict])

(***************************************************************************)
(* export_json                                                             *)
(***************************************************************************)
Reverse(s) == [i \in 1..Len(s) |-> s[Len(s) + 1 - i]]

\* e inserted into the ascending list s behind every element not above it
InsertAsc(s, e) ==
    LET k == Cardinality({i \in 1..Len(s) : s[i].count <= e.count})
    IN  SubSeq(s, 1, k) \o <<e>> \o SubSeq(s, k + 1, Len(s))

RECURSIVE SortAsc(_)
SortAsc(s) == IF s = <<>> THEN <<>> ELSE InsertAsc(SortAsc(SubSeq(s, 1, Len(s) - 1)), s[Len(s)])

\* sorted(items)[::-1]: ties come out in reverse
SortedByCountDesc_reversed(items) == Reverse(SortAsc(items))

\* sorted(items, key=count, reverse=True): the list is reversed, sorted
\* ascending by a stable sort and reversed again
SortedByCountDesc(items) == Reverse(SortAsc(Reverse(items)))

\* the orders in which a dict with key set K can list its keys
KeyOrders(K) == {o \in [1..Cardinality(K) -> K] : \A i, j \in DOMAIN o : o[i] = o[j] => i = j}

(***************************************************************************)
(* State machine                                                           *)
(***************************************************************************)
\* no request issued yet by the current call
NoResponse == Response("none", 0, "", 0)

NoExport == [st |-> "none", painterCounts |-> <<>>, pixels |-> EmptyDict]

Active == {"start", "loop", "row", "col", "save", "dump", "final", "fdump", "remove", "ret"}

Block == blocks[bi]

ResetLocals ==
    /\ partial_data' = <<>>
    /\ rows_done' = 0
    /\ retry_count' = 0
    /\ row_index' = 0
    /\ col' = 0
    /\ row_pixels' = <<>>
    /\ lastResp' = NoResponse

\* a first run on an empty chunk directory
Fresh ==
    /\ files = [n \in FileNames |-> Absent]
    /\ blocks = <<>>
    /\ bi = 1
    /\ result = "NONE"
    /\ partial_data = <<>>
    /\ rows_done = 0
    /\ retry_count = 0
    /\ row_index = 0
    /\ col = 0
    /\ row_pixels = <<>>
    /\ runs = 1
    /\ crashes = 0
    /\ transients = 0
    /\ abortRow = -1
    /\ fetches = 0
    /\ committed = [b \in AllKeys |-> <<>>]
    /\ mergeRead = {}
    /\ lastResp = NoResponse
    /\ key_order = <<>>
    /\ exported = NoExport

Init ==
    /\ cfg \in Configs
    /\ world \in Worlds
    /\ pc = "start"
    /\ merged = NoData
    /\ Fresh

\* collect_data_parallel: rect_bounds and the enumeration of the blocks
Enumerate ==
    /\ pc = "start"
    /\ blocks' = EnumerateBlocks(Rect)
    /\ bi' = 1
    /\ pc' = "loop"
    /\ UNCHANGED <<cfg, world, files, result, locals, merged, runs, crashes,
                   transients, abortRow, fetches, committed, mergeRead>>
    /\ UNCHANGED <<lastResp, exportVars>>

\* process_block is called for the current block and finds its aggregate
SkipBlock ==
    /\ pc = "loop"
    /\ bi <= Len(blocks)
    /\ FinalExists(Block)
    /\ result' = "FINAL"
    /\ fetches' = 0
    /\ pc' = "ret"
    /\ UNCHANGED <<cfg, world, files, blocks, bi, locals, merged, runs, crashes,
                   transients, abortRow, committed, mergeRead>>
    /\ UNCHANGED <<lastResp, exportVars>>

\* process_block is called for the current block and loads its checkpoint
EnterBlock ==
    /\ pc = "loop"
    /\ bi <= Len(blocks)
    /\ ~FinalExists(Block)
    /\ partial_data' = LoadPartial(Block)
    /\ rows_done' = Len(LoadPartial(Block))
    /\ retry_count' = 0
    /\ row_index' = FirstRow(LoadPartial(Block))
    /\ fetches' = 0
    /\ pc' = "row"
    /\ UNCHANGED <<cfg, world, files, blocks, bi, result, col, row_pixels, merged,
                   runs, crashes, transients, abortRow, committed, mergeRead>>
    /\ UNCHANGED <<lastResp, exportVars>>

\* head of the row loop
RowStart ==
    /\ pc = "row"
    /\ IF row_index >= BLOCK_SIZE \/ Block[2] + row_index > Rect.wy1
       THEN pc' = "final" /\ UNCHANGED <<row_pixels, col>>
       ELSE pc' = "col" /\ row_pixels' = <<>> /\ col' = 0
    /\ UNCHANGED <<cfg, world, files, blocks, bi, result, partial_data, rows_done,
                   retry_count, row_index, merged, runs, crashes, transients,
                   abortRow, fetches, committed, mergeRead>>
    /\ UNCHANGED <<lastResp, exportVars>>

\* head of the column loop when the row is complete
RowEnd ==
    /\ pc = "col"
    /\ (col >= BLOCK_SIZE \/ Block[1] + col > Rect.wx1)
    /\ pc' = "save"
    /\ UNCHANGED <<cfg, world, files, blocks, bi, result, locals, merged, runs,
                   crashes, transients, abortRow, fetches, committed, mergeRead>>
    /\ UNCHANGED <<lastResp, exportVars>>

\* as FetchStep, the rows and the records of the aborted row saved on a transient outcome
FetchStep_commits(r) ==
    LET wx == Block[1] + col
        wy == Block[2] + row_index
        data == fetch_pixel(r)
    IN  /\ pc = "col"
        /\ col < BLOCK_SIZE
        /\ wx <= Rect.wx1
        /\ r \in {ServerAnswer(world, tile_coords(wx, wy)[1], tile_coords(wx, wy)[2],
                               tile_coords(wx, wy)[3], tile_coords(wx, wy)[4])} \cup Failures
        /\ fetches' = fetches + 1
        /\ IF IsTransient(data)
           THEN /\ retry_count' = retry_count + 1
                /\ result' = IF retry_count + 1 >= MAX_RETRY THEN "FAILED" ELSE "RETRY"
                /\ transients' = Min(transients + 1, TransCap)
                /\ abortRow' = row_index
                /\ pc' = "ret"
                /\ files' = [files EXCEPT ![partial_filename(Block)] =
                                ListFile(Append(partial_data, row_pixels))]
                /\ UNCHANGED <<col, row_pixels>>
           ELSE /\ row_pixels' = IF data.tag = "404" THEN row_pixels
                                 ELSE row_pixels \o PixelRecords(data, wx, wy, Rect)
                /\ col' = col + 1
                /\ pc' = "col"
                /\ UNCHANGED <<retry_count, result, transients, abortRow, files>>
        /\ UNCHANGED <<cfg, world, blocks, bi, partial_data, rows_done,
                       row_index, merged, runs, crashes, committed, mergeRead>>
        /\ lastResp' = r
        /\ UNCHANGED exportVars

\* one pixel of the row: fetch_pixel on the response r and what process_block
\* does with its outcome
ProcessPixel(r) ==
    LET wx == Block[1] + col
        wy == Block[2] + row_index
        data == fetch_pixel(r)
    IN  /\ pc = "col"
        /\ col < BLOCK_SIZE
        /\ wx <= Rect.wx1
        /\ fetches' = fetches + 1
        /\ IF IsTransient(data)
           THEN /\ retry_count' = retry_count + 1
                /\ result' = IF retry_count + 1 >= MAX_RETRY THEN "FAILED" ELSE "RETRY"
                /\ transients' = Min(transients + 1, TransCap)
                /\ abortRow' = row_index
                /\ pc' = "ret"
                /\ UNCHANGED <<col, row_pixels>>
           ELSE /\ row_pixels' = IF data.tag = "404" THEN row_pixels
                                 ELSE row_pixels \o PixelRecords(data, wx, wy, Rect)
                /\ col' = col + 1
                /\ pc' = "col"
                /\ UNCHANGED <<retry_count, result, transients, abortRow>>
        /\ UNCHANGED <<cfg, world, files, blocks, bi, partial_data, rows_done,
                       row_index, merged, runs, crashes, committed, mergeRead>>
        /\ lastResp' = r
        /\ UNCHANGED exportVars

\* one pixel of the row, answered by the service as it is or by a failure
FetchStep(r) ==
    LET wx == Block[1] + col
        wy == Block[2] + row_index
    IN  /\ pc = "col"
        /\ r \in {ServerAnswer(world, tile_coords(wx, wy)[1], tile_coords(wx, wy)[2],
                               tile_coords(wx, wy)[3], tile_coords(wx, wy)[4])} \cup Failures
        /\ ProcessPixel(r)

\* partial_data.append(row_pixels); open(partial_file, "w") truncates the file
SaveOpen ==
    /\ pc = "save"
    /\ partial_data' = Append(partial_data, row_pixels)
    /\ files' = [files EXCEPT ![partial_filename(Block)] = Truncated]
    /\ pc' = "dump"
    /\ UNCHANGED <<cfg, world, blocks, bi, result, rows_done, retry_count, row_index,
                   col, row_pixels, merged, runs, crashes, transients, abortRow,
                   fetches, committed, mergeRead>>
    /\ UNCHANGED <<lastResp, exportVars>>

\* json.dump(partial_data, f) and close; next row
SaveDump ==
    /\ pc = "dump"
    /\ files' = [files EXCEPT ![partial_filename(Block)] = ListFile(partial_data)]
    /\ committed' = [committed EXCEPT ![Block] = partial_data]
    /\ row_index' = row_index + 1
    /\ pc' = "row"
    /\ UNCHANGED <<cfg, world, blocks, bi, result, partial_data, rows_done,
                   retry_count, col, row_pixels, merged, runs, crashes, transients,
                   abortRow, fetches, mergeRead>>
    /\ UNCHANGED <<lastResp, exportVars>>

\* open(final_file, "w") truncates the aggregate file
FinalOpen ==
    /\ pc = "final"
    /\ files' = [files EXCEPT ![chunk_filename(Block)] = Truncated]
    /\ pc' = "fdump"
    /\ UNCHANGED <<cfg, world, blocks, bi, result, locals, merged, runs, crashes,
                   transients, abortRow, fetches, committed, mergeRead>>
    /\ UNCHANGED <<lastResp, exportVars>>

\* json.dump(final_data, f) and close
FinalDump ==
    /\ pc = "fdump"
    /\ files' = [files EXCEPT ![chunk_filename(Block)] = FinalData(partial_data)]
    /\ pc' = "remove"
    /\ UNCHANGED <<cfg, world, blocks, bi, result, locals, merged, runs, crashes,
                   transients, abortRow, fetches, committed, mergeRead>>
    /\ UNCHANGED <<lastResp, exportVars>>

\* os.remove(partial_file) when it exists; return final_file
RemovePartial ==
    /\ pc = "remove"
    /\ files' = [files EXCEPT ![partial_filename(Block)] = Absent]
    /\ committed' = [committed EXCEPT ![Block] = <<>>]
    /\ result' = "FINAL"
    /\ pc' = "ret"
    /\ UNCHANGED <<cfg, world, blocks, bi, locals, merged, runs, crashes,
                   transients, abortRow, fetches, mergeRead>>
    /\ UNCHANGED <<lastResp, exportVars>>

\* "RETRY" taken as a final answer: the loop breaks on it
Retry_gives_up ==
    /\ pc = "ret"
    /\ result = "RETRY"
    /\ ResetLocals
    /\ bi' = bi + 1
    /\ pc' = "loop"
    /\ UNCHANGED <<cfg, world, files, blocks, result, merged, runs, crashes,
                   transients, abortRow, fetches, committed, mergeRead>>
    /\ UNCHANGED exportVars

\* collect_data_parallel: process_block returned "RETRY": call it again
Retry ==
    /\ pc = "ret"
    /\ result = "RETRY"
    /\ ResetLocals
    /\ pc' = "loop"
    /\ UNCHANGED <<cfg, world, files, blocks, bi, result, merged, runs, crashes,
                   transients, abortRow, fetches, committed, mergeRead>>
    /\ UNCHANGED exportVars

\* collect_data_parallel: any other value: break, next block
NextBlock ==
    /\ pc = "ret"
    /\ result # "RETRY"
    /\ ResetLocals
    /\ bi' = bi + 1
    /\ transients' = 0
    /\ abortRow' = -1
    /\ pc' = "loop"
    /\ UNCHANGED <<cfg, world, files, blocks, result, merged, runs, crashes,
                   fetches, committed, mergeRead>>
    /\ UNCHANGED exportVars

\* collect_data_parallel: the merge of the chunk directory, every file decodes
MergeOk ==
    /\ pc = "loop"
    /\ bi > Len(blocks)
    /\ \A n \in MergeSelected : ~MergeRaises(n)
    /\ merged' = MergeChunks(MergeSelected)
    /\ mergeRead' = MergeSelected
    /\ pc' = "merged"
    /\ UNCHANGED <<cfg, world, files, blocks, bi, result, locals, runs, crashes,
                   transients, abortRow, fetches, committed>>
    /\ UNCHANGED <<lastResp, exportVars>>

\* the merge reaches file n, in the directory's arbitrary order after the files
\* of before, and the exception ends the run
MergeFails(n, before) ==
    /\ pc = "loop"
    /\ bi > Len(blocks)
    /\ n \in MergeSelected
    /\ MergeRaises(n)
    /\ before \subseteq {m \in MergeSelected : ~MergeRaises(m)}
    /\ mergeRead' = before \cup {n}
    /\ pc' = "raised"
    /\ UNCHANGED <<cfg, world, files, blocks, bi, result, locals, merged, runs,
                   crashes, transients, abortRow, fetches, committed>>
    /\ UNCHANGED <<lastResp, exportVars>>

\* the process is interrupted (killed, power loss)
Crash ==
    /\ pc \in Active
    /\ crashes < MaxCrashes
    /\ crashes' = crashes + 1
    /\ ResetLocals
    /\ blocks' = <<>>
    /\ bi' = 1
    /\ result' = "NONE"
    /\ transients' = 0
    /\ abortRow' = -1
    /\ fetches' = 0
    /\ pc' = "idle"
    /\ UNCHANGED <<cfg, world, files, merged, runs, committed, mergeRead>>
    /\ UNCHANGED exportVars

\* the program is started again, with START/END pair c
NewRun(c) ==
    /\ pc \in {"idle", "merged", "raised", "exported"}
    /\ runs < MaxRuns
    /\ runs' = runs + 1
    /\ cfg' = c
    /\ ResetLocals
    /\ blocks' = <<>>
    /\ bi' = 1
    /\ result' = "NONE"
    /\ merged' = NoData
    /\ mergeRead' = {}
    /\ transients' = 0
    /\ abortRow' = -1
    /\ fetches' = 0
    /\ pc' = "start"
    /\ UNCHANGED <<world, files, crashes, committed>>
    /\ key_order' = <<>>
    /\ exported' = NoExport

\* main: export_json of the merged data, painter_counts listing its keys in order o
ExportJson(o) ==
    /\ pc = "merged"
    /\ o \in KeyOrders(DOMAIN merged.painter_counts)
    /\ key_order' = [i \in DOMAIN o |-> [key |-> o[i], count |-> merged.painter_counts[o[i]]]]
    /\ exported' = [st |-> "written",
                    painterCounts |-> SortedByCountDesc(
                        [i \in DOMAIN o |-> [key |-> o[i], count |-> merged.painter_counts[o[i]]]]),
                    pixels |-> merged.pixel_map]
    /\ pc' = "exported"
    /\ UNCHANGED <<cfg, world, files, blocks, bi, result, locals, merged, runs, crashes,
                   transients, abortRow, fetches, committed, mergeRead, lastResp>>

Export == \E o \in KeyOrders(DOMAIN merged.painter_counts) : ExportJson(o)

Rerun == NewRun(cfg)

\* the enumeration of collect_data_parallel on its own, for any START/END
InitEnum ==
    /\ cfg \in EnumConfigs
    /\ world = "empty"
    /\ pc = "start"
    /\ merged = NoData
    /\ Fresh

SpecEnum == InitEnum /\ [][Enumerate]_vars

\* painter keys of a merged dataset handed to export_json
ExportKeys == {PainterKey("A", 1), PainterKey("B", 2), PainterKey("C", 3)}

\* export_json on its own, for any painter_counts the merge can hand over
InitExport ==
    /\ cfg = CfgStrip
    /\ world = "mixed"
    /\ pc = "merged"
    /\ merged \in {[st |-> "ok", painter_counts |-> f, pixel_map |-> EmptyDict] :
                     f \in UNION {[K -> 1..MaxCount] : K \in SUBSET ExportKeys}}
    /\ Fresh

SpecExport == InitExport /\ [][Export]_vars


Reconfigure == \E c \in Configs \ {cfg} : NewRun(c)

Fetch == \E r \in {Response(e, s, n, i) : e \in {"none", "timeout", "other"},
                   s \in {0, 200, 403, 404, 429, 500}, n \in {"", "A", "B"}, i \in {0, 1, 2}} :
             FetchStep(r)

Merge == MergeOk \/ \E n \in FileNames : \E before \in SUBSET FileNames : MergeFails(n, before)

\* one run of the program, uninterrupted
Step ==
    \/ Enumerate
    \/ SkipBlock
    \/ EnterBlock
    \/ RowStart
    \/ RowEnd
    \/ Fetch
    \/ SaveOpen
    \/ SaveDump
    \/ FinalOpen
    \/ FinalDump
    \/ RemovePartial
    \/ Retry
    \/ NextBlock
    \/ Merge
    \/ Export

\* the service always answers: no timeout, no error status
FetchAnswered == \E r \in {Response("none", s, n, i) :
                             s \in {200, 404}, n \in {"", "A", "B"}, i \in {0, 1, 2}} :
                     FetchStep(r)

\* one uninterrupted first run against a service that always answers
NextQuiet ==
    \/ Enumerate
    \/ EnterBlock
    \/ RowStart
    \/ RowEnd
    \/ FetchAnswered
    \/ SaveOpen
    \/ SaveDump
    \/ FinalOpen
    \/ FinalDump
    \/ RemovePartial
    \/ NextBlock
    \/ MergeOk
    \/ Export

SpecQuiet == Init /\ [][NextQuiet]_vars

\* status codes a response can carry
Statuses == {200, 201, 300, 400, 403, 404, 429, 500, 503}

\* what requests.get and r.json() can come back with, whatever the service is
AnyResponses == {Response(e, s, n, i) : e \in {"none", "timeout", "other"},
                                         s \in Statuses, n \in {"", "A"}, i \in {0, 1}}

FetchAny == \E r \in AnyResponses : ProcessPixel(r)

\* the first row of the first block, each request answered by any response
NextFetch ==
    \/ Enumerate
    \/ EnterBlock
    \/ RowStart
    \/ FetchAny

SpecFetch == Init /\ [][NextFetch]_vars

\* what collect_data_parallel returns to main
ReturnedValue == [painter_counts |-> merged.painter_counts, pixel_map |-> merged.pixel_map]

\* the blocks a returned value reports as failed
FailureRecord(v) == IF "failed" \in DOMAIN v THEN v.failed ELSE {}

\* runs of one START/END pair, interrupted and restarted
Next == Step \/ Crash \/ Rerun

Spec == Init /\ [][Next]_vars

\* as Spec, and START/END may be edited between runs
NextReconf == Next \/ Reconfigure

SpecReconf == Init /\ [][NextReconf]_vars

\* as Spec; a running program always takes its next step (the interpreter does
\* not stop by itself), interruptions and restarts are up to the user
FairSpec == Init /\ [][Next]_vars /\ WF_vars(Step)

(***************************************************************************)
(* Properties                                                              *)
(***************************************************************************)
InBlock == pc \in {"row", "col", "save", "dump", "final", "fdump", "remove"}

Finished == pc \in {"merged", "raised"}

\* C1: once a block has seen 5 transient outcomes over all the attempts made
\* for it, process_block has returned "FAILED", and no block sees a sixth.
C1_FailedAfterFiveTransients ==
    /\ transients >= MAX_RETRY => (pc = "ret" /\ result = "FAILED")
    /\ transients <= MAX_RETRY

\* C2: whatever the requests answer, a run that is not interrupted comes to
\* its end: the merge is reached (and completes or raises).
C2_RunEnds == <>(Finished \/ pc = "idle")

\* C3: after an attempt aborted in row r, the next attempt of the block starts
\* with the r checkpointed rows, issues its first request at (r, 0) and never
\* requests a pixel of a row before r.
C3_ResumeAtAbortedRow ==
    (InBlock /\ abortRow >= 0) =>
        /\ rows_done = abortRow
        /\ Len(partial_data) >= abortRow
        /\ row_index >= abortRow
        /\ (pc = "col" /\ fetches = 0) => (row_index = abortRow /\ col = 0)

C3_Witness ==
    /\ pc = "col"
    /\ abortRow = 3
    /\ fetches = 0
    /\ row_index = 3
    /\ col = 0
    /\ Len(partial_data) = 3
    /\ transients >= 1

\* C4: what a run finds as a block's checkpoint after an interruption is
\* exactly the rows of the last completed checkpoint write.
C4_RecoveryContract ==
    pc \in {"idle", "start"} =>
        \A b \in AllKeys : ~FinalExists(b) => LoadPartial(b) = committed[b]

\* C5: with a checkpoint left beside the complete aggregate of one of its
\* blocks, a run that reaches its merge completes it, from the blocks'
\* aggregates alone.
C5_LeftoverCheckpointHarmless ==
    (/\ Finished
     /\ \E b \in SeqToSet(blocks) :
            files[chunk_filename(b)].st = "dict" /\ Exists(partial_filename(b))
     /\ \A b \in SeqToSet(blocks) : files[chunk_filename(b)].st = "dict")
    => (/\ pc = "merged"
        /\ merged = MergeChunks({chunk_filename(b) : b \in SeqToSet(blocks)}))

\* C6: process_block entered for a block whose aggregate file exists returns
\* the aggregate's name at once, with no request and no file changed; a written
\* aggregate is never changed by any later step of any run.
C6_IdempotentSkip ==
    /\ [][(pc = "loop" /\ bi <= Len(blocks) /\ FinalExists(Block))
            => (/\ files' = files
                /\ pc' \in {"ret", "idle"}
                /\ pc' = "ret" => (result' = "FINAL" /\ fetches' = 0))]_vars
    /\ [][\A b \in AllKeys :
            files[chunk_filename(b)].st = "dict"
                => files'[chunk_filename(b)] = files[chunk_filename(b)]]_vars

C6_Witness ==
    /\ pc = "ret"
    /\ result = "FINAL"
    /\ fetches = 0
    /\ partial_data = <<>>
    /\ files[chunk_filename(Block)].st = "dict"
    /\ runs >= 2

\* The aggregate of block b as one uninterrupted pass over its clipped extent
\* builds it, straight from what the service holds.
RowCoords(b, r, wy) == [j \in 1..(Min(b[1] + BLOCK_SIZE - 1, r.wx1) - b[1] + 1) |-> <<b[1] + j - 1, wy>>]

BlockCoords(b, r) ==
    Concat([i \in 1..(Min(b[2] + BLOCK_SIZE - 1, r.wy1) - b[2] + 1) |-> RowCoords(b, r, b[2] + i - 1)])

OwnerAt(c) ==
    fetch_pixel(ServerAnswer(world, c[1] \div TILE_SIZE, c[2] \div TILE_SIZE,
                             c[1] % TILE_SIZE, c[2] % TILE_SIZE))

RefPixels(b, r) ==
    LET cs == BlockCoords(b, r)
    IN  Concat([i \in 1..Len(cs) |-> PixelRecords(OwnerAt(cs[i]), cs[i][1], cs[i][2], r)])

RefCounts(ps) ==
    [k \in {ps[i].painters[1] : i \in 1..Len(ps)} |->
        Cardinality({i \in 1..Len(ps) : ps[i].painters[1] = k})]

RefAggregate(b, r) == DictFile(RefCounts(RefPixels(b, r)), RefPixels(b, r))

\* C7: with the service's answers fixed, the aggregate a block ends with is
\* the one an uninterrupted pass from an empty checkpoint builds, however many
\* interruptions and retries its checkpoint went through.
C7_SameAggregateAfterResume ==
    \A b \in SeqToSet(blocks) :
        files[chunk_filename(b)].st = "dict" => files[chunk_filename(b)] = RefAggregate(b, Rect)

C7_Witness ==
    /\ pc = "remove"
    /\ crashes >= 1
    /\ transients >= 1
    /\ rows_done = 4
    /\ files[chunk_filename(Block)].st = "dict"
    /\ Len(files[chunk_filename(Block)].pixels) >= 3

\* C8: a block that has used up its 5 transient outcomes is left behind: the
\* orchestrator goes on to the next block (and so to the merge).
C8_FailedBlockIsPassed ==
    \A i \in 1..2 : (bi = i /\ transients >= MAX_RETRY) ~> (bi > i \/ pc = "idle")

\* C9: the merge opens no file but aggregate files of the blocks enumerated
\* for the current rectangle.
C9_MergeReadsOnlyAggregates ==
    Finished => mergeRead \subseteq {chunk_filename(b) : b \in SeqToSet(blocks)}

RECURSIVE SumCounts(_, _)
SumCounts(names, k) ==
    IF names = {} THEN 0
    ELSE LET n == CHOOSE x \in names : TRUE
         IN  (IF k \in DOMAIN files[n].painterCounts THEN files[n].painterCounts[k] ELSE 0)
             + SumCounts(names \ {n}, k)

PaintersAt(names, c) ==
    UNION {SeqToSet(files[n].pixels[i].painters) :
             <<n, i>> \in {<<m, j>> \in UNION {{m} \X (1..Len(files[m].pixels)) : m \in names} :
                              <<files[m].pixels[j].x, files[m].pixels[j].y>> = c}}

CoordsOf(names) ==
    UNION {{<<files[n].pixels[i].x, files[n].pixels[i].y>> : i \in 1..Len(files[n].pixels)} : n \in names}

\* C10: the merged count of a painter is the sum of its counts in the merged
\* aggregates, and the merged set of a coordinate is the union of the painters
\* the merged aggregates record for it.
C10_MergeIsSumAndUnion ==
    pc = "merged" =>
        /\ DOMAIN merged.painter_counts = UNION {DOMAIN files[n].painterCounts : n \in mergeRead}
        /\ \A k \in DOMAIN merged.painter_counts :
               merged.painter_counts[k] = SumCounts(mergeRead, k)
        /\ DOMAIN merged.pixel_map = CoordsOf(mergeRead)
        /\ \A c \in DOMAIN merged.pixel_map : merged.pixel_map[c] = PaintersAt(mergeRead, c)

C10_Witness ==
    /\ pc = "merged"
    /\ Cardinality(mergeRead) = 2
    /\ \E k \in DOMAIN merged.painter_counts :
           \A n \in mergeRead : k \in DOMAIN files[n].painterCounts
    /\ \E c \in DOMAIN merged.pixel_map : Cardinality(merged.pixel_map[c]) = 2

ValidRect(r) == r.wx1 >= r.wx0 /\ r.wy1 >= r.wy0

RectPixels(r) == (r.wx0 .. r.wx1) \X (r.wy0 .. r.wy1)

ClippedExtent(b, r) ==
    (b[1] .. Min(b[1] + BLOCK_SIZE - 1, r.wx1)) \X (b[2] .. Min(b[2] + BLOCK_SIZE - 1, r.wy1))

\* C11: for a valid rectangle every pixel of it lies in the clipped extent of
\* exactly one enumerated block and no extent leaves the rectangle;
\* (0,0)-(19,9) gives the two blocks (0,0) and (10,0).
C11_BlocksCoverExactlyOnce ==
    (pc = "loop" /\ ValidRect(Rect)) =>
        /\ \A q \in RectPixels(Rect) :
               Cardinality({i \in 1..Len(blocks) : q \in ClippedExtent(blocks[i], Rect)}) = 1
        /\ \A i \in 1..Len(blocks) : ClippedExtent(blocks[i], Rect) \subseteq RectPixels(Rect)
        /\ Rect = [wx0 |-> 0, wy0 |-> 0, wx1 |-> 19, wy1 |-> 9] => blocks = <<(<<0, 0>>), (<<10, 0>>)>>

C11_Witness ==
    /\ pc = "loop"
    /\ Rect = [wx0 |-> 0, wy0 |-> 0, wx1 |-> 19, wy1 |-> 9]
    /\ Len(blocks) = 2

C11_WitnessClipped ==
    /\ pc = "loop"
    /\ Rect = [wx0 |-> 990, wy0 |-> 995, wx1 |-> 1010, wy1 |-> 1009]
    /\ Len(blocks) = 6

\* C14: for a START/END pair whose end lies before its start on an axis the
\* run stops at the computation of the bounds: no block list is built.
C14_InvalidRectangleRejected ==
    ~ValidRect(Rect) => (pc = "start" /\ blocks = <<>>)

SplitJoin(w) ==
    LET t == tile_coords(w[1], w[2]) IN world_coords(t[1], t[2], t[3], t[4])

JoinSplit(p) ==
    LET w == world_coords(p.tlx, p.tly, p.pxx, p.pxy) IN tile_coords(w[1], w[2])

\* C17: an absolute coordinate split by division and modulo by 1000 and put
\* together again is itself, its offsets lying in 0..999; a tile and offset
\* (offset in 0..999) put together and split again are themselves.
C17_CoordinateRoundTrip ==
    \A p \in {cfg.start, cfg.end} :
        LET w == world_coords(p.tlx, p.tly, p.pxx, p.pxy)
        IN  /\ SplitJoin(w) = w
            /\ tile_coords(w[1], w[2])[3] \in 0..(TILE_SIZE - 1)
            /\ tile_coords(w[1], w[2])[4] \in 0..(TILE_SIZE - 1)
            /\ (p.pxx \in 0..(TILE_SIZE - 1) /\ p.pxy \in 0..(TILE_SIZE - 1))
                   => JoinSplit(p) = <<p.tlx, p.tly, p.pxx, p.pxy>>
            /\ \A q \in {<<w[1] + dx, w[2] + dy>> : dx \in {-1, 0, 1}, dy \in {-1, 0, 1}} :
                   SplitJoin(q) = q

C17_Witness ==
    /\ pc = "loop"
    /\ cfg.start = Point(-1, 0, 999, 999)
    /\ cfg.end = Point(0, 1, 0, 0)
    /\ JoinSplit(cfg.start) = <<-1, 0, 999, 999>>
    /\ SplitJoin(<<-1, 999>>) = <<-1, 999>>

\* C12: while a row is being fetched no file changes, and when the row is
\* aborted by a transient outcome the checkpoint still is what the attempt had
\* before the row: the rows before it, none of the records collected in it.
C12_AbortCommitsNothing ==
    /\ []((pc = "col" \/ (pc = "ret" /\ result \in {"RETRY", "FAILED"})) =>
             /\ LoadPartial(Block) = partial_data
             /\ Len(partial_data) = row_index
             /\ \A i \in 1..Len(row_pixels) : \A n \in FileNames :
                    /\ \A j \in 1..Len(files[n].rows) :
                           row_pixels[i] \notin SeqToSet(files[n].rows[j])
                    /\ row_pixels[i] \notin SeqToSet(files[n].pixels))
    /\ [][pc = "col" => files' = files]_vars

C12_Witness ==
    /\ pc = "ret"
    /\ result = "RETRY"
    /\ row_pixels # <<>>
    /\ col = 1

NoOwnerAnswer(r) ==
    r.exc = "none" /\ (r.status = 404 \/ (r.status = 200 /\ r.name = "" /\ r.id = 0))

\* C13: a request answered 404, or 200 without an owner, adds no record,
\* leaves the retry counter alone and goes on with the next column of the row.
C13_NotFoundIsSkipped ==
    [][(fetches' = fetches + 1 /\ NoOwnerAnswer(lastResp')) =>
           /\ row_pixels' = row_pixels
           /\ retry_count' = retry_count
           /\ transients' = transients
           /\ result' = result
           /\ pc' = "col"
           /\ col' = col + 1
           /\ files' = files]_vars

C13_Witness ==
    /\ pc = "remove"
    /\ world = "mixed"
    /\ cfg = CfgColumn
    /\ bi = 1
    /\ fetches = 10
    /\ \E i \in 1..Len(partial_data) : partial_data[i] = <<>>
    /\ files[chunk_filename(Block)].st = "dict"
    /\ Len(files[chunk_filename(Block)].pixels) = 5

ClippedWidth(b, r) == Min(b[1] + BLOCK_SIZE - 1, r.wx1) - b[1] + 1

\* C16: the blocks are driven one after the other in the order of the list,
\* the k-th request of an attempt is the k-th pixel of its rows in row-major
\* order, the merge runs when every block has given a final answer, and no
\* request follows it.
C16_SequentialOrderAndBarrier ==
    /\ [](pc = "col" =>
             /\ fetches = (row_index - rows_done) * ClippedWidth(Block, Rect) + col
             /\ col <= ClippedWidth(Block, Rect))
    /\ []((InBlock \/ pc = "ret") => bi \in 1..Len(blocks))
    /\ [](pc \in {"merged", "raised", "exported"} => bi = Len(blocks) + 1)
    /\ [][bi' # bi =>
            \/ (pc' \in {"start", "idle"} /\ bi' = 1)
            \/ (bi' = bi + 1 /\ pc = "ret" /\ result \in {"FINAL", "FAILED"})]_vars
    /\ [][(pc \in {"merged", "raised", "exported"} /\ fetches' # fetches) => pc' = "start"]_vars

C16_Witness ==
    /\ pc = "merged"
    /\ Len(blocks) = 2
    /\ world = "mixed"
    /\ runs = 1
    /\ crashes = 0
    /\ fetches = 1

\* C20: a file of the chunk directory changes only inside process_block, and
\* then it is the checkpoint or the aggregate named after the current block.
C20_BlockOwnsItsFiles ==
    [][\A n \in FileNames :
           files'[n] # files[n] =>
               /\ pc \in {"save", "dump", "final", "fdump", "remove"}
               /\ n[2] = Block[1]
               /\ n[3] = Block[2]]_vars

C20_Witness ==
    /\ pc = "dump"
    /\ bi = 2
    /\ files[chunk_filename(blocks[1])].st = "dict"
    /\ files[partial_filename(blocks[2])].st = "trunc"

\* C15: a block that has used up its 5 transient outcomes ends up recorded as
\* failed in what the run returns (unless the run is interrupted or the merge
\* raises).
C15_FailureIsReported ==
    \A i \in 1..2 :
        (bi = i /\ transients >= MAX_RETRY) ~>
            \/ pc \in {"idle", "raised"}
            \/ (pc \in {"merged", "exported"} /\ i \in DOMAIN blocks
                  /\ blocks[i] \in FailureRecord(ReturnedValue))

PositionOf(seq, k) == CHOOSE i \in 1..Len(seq) : seq[i].key = k

\* C18: the exported painterCounts lists every key of the merged counts
\* once, with its count, counts never increasing, and keys of equal count in
\* the order in which the merged mapping lists them.
C18_LeaderboardSortedStable ==
    exported.st = "written" =>
        LET out == exported.painterCounts
        IN  /\ Len(out) = Cardinality(DOMAIN merged.painter_counts)
            /\ {out[i].key : i \in 1..Len(out)} = DOMAIN merged.painter_counts
            /\ \A i \in 1..Len(out) : out[i].count = merged.painter_counts[out[i].key]
            /\ \A i, j \in 1..Len(out) :
                   i < j => /\ out[i].count >= out[j].count
                            /\ out[i].count = out[j].count =>
                                   PositionOf(key_order, out[i].key) < PositionOf(key_order, out[j].key)

C18_Witness ==
    /\ exported.st = "written"
    /\ [i \in 1..Len(key_order) |-> key_order[i].key]
           = <<PainterKey("C", 3), PainterKey("B", 2), PainterKey("A", 1)>>
    /\ [i \in 1..Len(key_order) |-> key_order[i].count] = <<1, 2, 2>>
    /\ [i \in 1..Len(exported.painterCounts) |-> exported.painterCounts[i].key]
           = <<PainterKey("B", 2), PainterKey("A", 1), PainterKey("C", 3)>>

\* C19: when every request is answered 404, no attempt returns "RETRY" or
\* "FAILED", every aggregate written is empty, the merge ends with no painter
\* and no pixel from the aggregates of all the blocks, and the export is
\* written with empty lists.
C19_AllNotFoundRun ==
    world = "empty" =>
        /\ result \notin {"RETRY", "FAILED"}
        /\ transients = 0
        /\ pc # "raised"
        /\ \A n \in FileNames :
               files[n].st = "dict" => files[n] = DictFile(EmptyDict, <<>>)
        /\ pc \in {"merged", "exported"} =>
               /\ \A i \in 1..Len(blocks) :
                      files[chunk_filename(blocks[i])] = DictFile(EmptyDict, <<>>)
               /\ merged = [st |-> "ok", painter_counts |-> EmptyDict, pixel_map |-> EmptyDict]
        /\ pc = "exported" =>
               exported = [st |-> "written", painterCounts |-> <<>>, pixels |-> EmptyDict]

C19_Witness ==
    /\ world = "empty"
    /\ cfg = CfgColumn
    /\ pc = "exported"
    /\ Len(blocks) = 2
    /\ exported.st = "written"

\* the outcome the taxonomy gives a response
ClaimedOutcome(r) ==
    IF r.exc = "timeout" THEN "TIMEOUT"
    ELSE IF r.exc # "none" THEN "ERROR"
    ELSE IF r.status = 404 THEN "404"
    ELSE IF r.status = 429 THEN "RATE_LIMIT"
    ELSE IF r.status >= 500 THEN "SERVER_ERROR"
    ELSE IF r.status \in 200..299 THEN "DATA"
    ELSE "ERROR"

\* C21: fetch_pixel gives every response the outcome of the taxonomy (404
\* NotFound, 429 RateLimited, >= 500 ServerError, timeout Timeout, any other
\* failure or status outside 2xx the generic error, 2xx Success), one request
\* per call, and process_block aborts the row exactly on the outcomes other
\* than Success and NotFound.
C21_FetcherTaxonomy ==
    /\ [](lastResp # NoResponse => fetch_pixel(lastResp).tag = ClaimedOutcome(lastResp))
    /\ [][fetches' # fetches =>
            /\ fetches' = fetches + 1
            /\ (ClaimedOutcome(lastResp') \notin {"DATA", "404"}) <=>
                   (pc' = "ret" /\ retry_count' = retry_count + 1
                    /\ result' \in {"RETRY", "FAILED"})]_vars

RECURSIVE TotalCount(_)
TotalCount(counts) ==
    IF DOMAIN counts = {} THEN 0
    ELSE LET k == CHOOSE x \in DOMAIN counts : TRUE
         IN  counts[k] + TotalCount([j \in DOMAIN counts \ {k} |-> counts[j]])

\* C22: in every aggregate file the painter counts sum to the number of
\* records, every record has one painter and no two records share a
\* coordinate; and in what the merge of a run returns every coordinate has one
\* painter and the counts sum to the number of coordinates.
C22_AggregateConsistency ==
    /\ \A n \in FileNames :
           files[n].st = "dict" =>
               LET ps == files[n].pixels
               IN  /\ TotalCount(files[n].painterCounts) = Len(ps)
                   /\ \A i \in 1..Len(ps) : Len(ps[i].painters) = 1
                   /\ \A i, j \in 1..Len(ps) :
                          i # j => <<ps[i].x, ps[i].y>> # <<ps[j].x, ps[j].y>>
    /\ (pc \in {"merged", "exported"} /\ merged.st = "ok") =>
           /\ \A c \in DOMAIN merged.pixel_map : Cardinality(merged.pixel_map[c]) = 1
           /\ TotalCount(merged.painter_counts) = Cardinality(DOMAIN merged.pixel_map)

C22_Witness ==
    /\ pc = "merged"
    /\ cfg = CfgColumn
    /\ world = "mixed"
    /\ runs = 2
    /\ Cardinality(DOMAIN merged.pixel_map) = 6
    /\ TotalCount(merged.painter_counts) = 6

ClippedHeight(b, r) == Min(b[2] + BLOCK_SIZE - 1, r.wy1) - b[2] + 1

\* C23: a checkpoint never holds more rows than its block has, the records
\* of its row i have y = (by - wy0) + i and x among the block's columns, inside
\* the rectangle; and when process_block returns after writing the aggregate
\* the checkpoint file is gone.
C23_CheckpointShapeAndCleanup ==
    /\ [](\A k \in 1..Len(EnumerateBlocks(Rect)) :
             LET b == EnumerateBlocks(Rect)[k]
                 f == files[partial_filename(b)]
             IN  f.st = "list" =>
                     /\ Len(f.rows) <= ClippedHeight(b, Rect)
                     /\ \A i \in 1..Len(f.rows) : \A j \in 1..Len(f.rows[i]) :
                            LET p == f.rows[i][j]
                            IN  /\ p.y = (b[2] - Rect.wy0) + (i - 1)
                                /\ p.x >= b[1] - Rect.wx0
                                /\ p.x < (b[1] - Rect.wx0) + ClippedWidth(b, Rect)
                                /\ p.x >= 0 /\ p.x < Rect.wx1 - Rect.wx0 + 1
                                /\ p.y >= 0 /\ p.y < Rect.wy1 - Rect.wy0 + 1)
    /\ [][(pc = "remove" /\ pc' = "ret") =>
             /\ result' = "FINAL"
             /\ files'[chunk_filename(Block)].st = "dict"
             /\ files'[partial_filename(Block)] = Absent]_vars

C23_Witness ==
    /\ pc = "ret"
    /\ result = "FINAL"
    /\ cfg = CfgColumn
    /\ world = "mixed"
    /\ bi = 2
    /\ fetches = 1
    /\ files[partial_filename(blocks[2])] = Absent
    /\ files[partial_filename(blocks[1])].st = "list"
    /\ Len(files[partial_filename(blocks[1])].rows) = 10
    /\ \E i \in 2..10 : files[partial_filename(blocks[1])].rows[i] # <<>>

====
